---- MODULE Spec2Model ----
(***************************************************************************)
(* Model of the blackbox team HUD real-time client.                        *)
(*                                                                         *)
(* BlackboxWebSocketClient (src/unnamed/part_003): connection lifecycle,   *)
(* reconnect/backoff, heartbeat, system-message interception and the       *)
(* per-type handler registry.  The browser WebSocket is modelled by its    *)
(* readyState and by the events it delivers to the attached listeners;     *)
(* timers are modelled by whether they are pending.                        *)
(*                                                                         *)
(* TelemetryProcessor (src/unnamed/part_002): the telemetry snapshot with  *)
(* its merge and derived values, the History Rings, the suggestion list    *)
(* and reset().                                                            *)
(***************************************************************************)
EXTENDS Integers, Sequences, FiniteSets, TLC

\* ---------------------------------------------------------------- bounds
MaxReconnectAttempts == 3   \* config.maxReconnectAttempts (default 10)
MaxOrphanTimers == 1        \* reconnect timeouts whose handle was overwritten
MaxConnTimeouts == 2        \* connection-timeout callbacks pending at once
MaxStale == 1               \* superseded transports not yet fully closed
MaxHandlers == 3            \* handlers registered at once, over all types
MaxHistoryLength == 2       \* this.maxHistoryLength (300)
MaxOverflow == 1            \* entries a History Ring may hold beyond maxHistoryLength
MaxCallbacks == 2           \* update subscribers registered at a time

\* ------------------------------------------------------- program constants
ReconnectCap == 30000       \* Math.min(..., 30000)
CleanClose == 1000          \* event.code !== 1000

\* ------------------------------------------------------------ input sets
ReconnectIntervals == {3000, 12000}
CloseCodes == {1000, 1001, 1006}
Timestamps == {1, 2}
SystemTypes == {"ping", "pong"}
DomainTypes == {"telemetry", "session"}
MsgTypes == SystemTypes \cup DomainTypes
HandlerTypes == {"telemetry", "session", "ping", "pong"}
HandlerIds == {"plain", "thrower", "offSelf", "onPlain"}
\* event.data of a received frame: the text is a JSON object ("json", with the
\* type and timestamp it carries), an object without a type key ("noType"), the
\* literal null ("null") or no JSON at all ("notJSON").
Frames == [text : {"json"}, type : MsgTypes, timestamp : Timestamps]
MalformedFrames == [text : {"notJSON", "null", "noType"}, type : {"undefined"},
                    timestamp : Timestamps]
Received == Frames \cup MalformedFrames
NoFrame == [text |-> "none", type |-> "none", timestamp |-> 0]
NoCloseEvent == [code |-> 0, from |-> "none"]
NoArg == [type |-> "none", handler |-> "none"]

VARIABLES
    ws,                \* this.ws: "null" or the readyState of the current transport
    isConnected,       \* this.isConnected
    reconnectAttempts, \* this.reconnectAttempts
    reconnectTimer,    \* this.reconnectTimer: "null", "pending" or "fired" (stale handle)
    heartbeatTimer,    \* this.heartbeatTimer: "null" or "active"
    messageHandlers,   \* this.messageHandlers: type -> ordered handler list
    serverUrlValid,    \* whether new URL/new WebSocket accept config.serverUrl
    apiKey,            \* whether config.apiKey is set
    reconnectInterval, \* config.reconnectInterval
    orphanTimers,      \* pending reconnect timeouts no longer held in this.reconnectTimer
    connTimeouts,      \* pending connection-timeout callbacks
    stale,             \* superseded transports: counts per kind
    delivered,         \* statuses passed to the connection callbacks by the last step
    lastStatus,        \* most recent status passed to the connection callbacks
    sent,              \* frames written to the transport by the last step
    invoked,           \* message handlers called by the last step, in call order
    atStart,           \* handler list of the dispatched type when the last step's dispatch began
    lastFrame,         \* frame received by the last step (NoFrame otherwise)
    lastClose,         \* close event handled by the last step: its code and the readyState before it
    lastDelay,         \* delay of the latest scheduled reconnect since the last open
    lastOp,            \* name of the last step
    lastArg,           \* arguments of the on()/off()/send() call of the last step (NoArg otherwise)
    gaveUp,            \* scheduleReconnect took the give-up branch, no connect()/disconnect()/open since
    disconnected,      \* disconnect() was the last call the application made
    unackedPings,      \* heartbeat pings sent since the last pong (saturates at 2)
    currentData,       \* TelemetryProcessor.currentData: key -> value
    dataHistory,       \* TelemetryProcessor.dataHistory: the History Rings
    aiSuggestions,     \* TelemetryProcessor.aiSuggestions: the types, in order
    lastPayload,       \* data object processed by the last step (NoPayload otherwise)
    threw,             \* the last step's processing ended in the catch
    notified,          \* the last step called the update callbacks
    lastCall,          \* write the last step made on a value an accessor returned
    effects,           \* what the last step did outside the client, in program order
    requested,         \* channels of the latest subscription the application got sent
    updateCallbacks,   \* TelemetryProcessor.updateCallbacks: the subscribers, in order
    calledBack,        \* subscribers the last step called, in call order
    returned           \* what the last send() of the last step returned ("none": no send)

vars == <<ws, isConnected, reconnectAttempts, reconnectTimer, heartbeatTimer,
          messageHandlers, serverUrlValid, apiKey, reconnectInterval,
          orphanTimers, connTimeouts, stale, delivered, lastStatus, sent,
          invoked, atStart, lastFrame, lastClose, lastDelay, lastOp, lastArg,
          gaveUp, disconnected, unackedPings, currentData, dataHistory,
          aiSuggestions, lastPayload, threw, notified, lastCall, effects,
          requested, updateCallbacks, calledBack, returned>>

clientVars == <<ws, isConnected, reconnectAttempts, reconnectTimer, heartbeatTimer,
                messageHandlers, serverUrlValid, apiKey, reconnectInterval,
                orphanTimers, connTimeouts, stale, delivered, lastStatus, sent,
                invoked, atStart, lastFrame, lastClose, lastDelay, lastArg,
                gaveUp, disconnected, unackedPings, effects, requested, returned>>

processorVars == <<currentData, dataHistory, aiSuggestions, lastPayload, threw,
                   notified, lastCall, updateCallbacks, calledBack>>

configVars == <<reconnectInterval>>

Min(a, b) == IF a <= b THEN a ELSE b

StaleKinds == {"attClosing", "detConnecting", "detOpen", "detClosing"}
NoStale == [k \in StaleKinds |-> 0]
StaleCount(st) == st["attClosing"] + st["detConnecting"] + st["detOpen"] + st["detClosing"]

\* The client object and what its methods act on, as one record.
Self ==
    [ws |-> ws, isConnected |-> isConnected,
     reconnectAttempts |-> reconnectAttempts,
     reconnectTimer |-> reconnectTimer, heartbeatTimer |-> heartbeatTimer,
     orphanTimers |-> orphanTimers, connTimeouts |-> connTimeouts,
     stale |-> stale, delivered |-> <<>>, lastStatus |-> lastStatus,
     sent |-> <<>>, lastDelay |-> lastDelay, gaveUp |-> gaveUp,
     unackedPings |-> unackedPings, effects |-> <<>>, requested |-> requested,
     returned |-> "none"]

Commit(s) ==
    /\ ws' = s.ws
    /\ isConnected' = s.isConnected
    /\ reconnectAttempts' = s.reconnectAttempts
    /\ reconnectTimer' = s.reconnectTimer
    /\ heartbeatTimer' = s.heartbeatTimer
    /\ orphanTimers' = s.orphanTimers
    /\ connTimeouts' = s.connTimeouts
    /\ stale' = s.stale
    /\ delivered' = s.delivered
    /\ lastStatus' = s.lastStatus
    /\ sent' = s.sent
    /\ lastDelay' = s.lastDelay
    /\ gaveUp' = s.gaveUp
    /\ unackedPings' = s.unackedPings
    /\ effects' = s.effects
    /\ requested' = s.requested
    /\ returned' = s.returned

\* ------------------------------------------------------------ the methods

notifyConnectionChange(s, status) ==
    [s EXCEPT !.delivered = Append(@, status), !.lastStatus = status,
              !.effects = Append(@, [kind |-> "status", what |-> status])]

clearTimers(s) ==
    [s EXCEPT !.reconnectTimer = "null", !.heartbeatTimer = "null"]

\* The delay without the cap.
ReconnectDelayUncapped(interval, attempts) == interval * attempts

ReconnectDelay(interval, attempts) == Min(interval * attempts, ReconnectCap)

scheduleReconnect(s) ==
    IF s.reconnectAttempts >= MaxReconnectAttempts
    THEN notifyConnectionChange([s EXCEPT !.gaveUp = TRUE], "failed")
    ELSE LET n == s.reconnectAttempts + 1 IN
         notifyConnectionChange(
             [s EXCEPT !.reconnectAttempts = n,
                       !.lastDelay = ReconnectDelay(reconnectInterval, n),
                       !.orphanTimers = IF s.reconnectTimer = "pending" THEN @ + 1 ELSE @,
                       !.reconnectTimer = "pending"],
             "reconnecting")

\* send without the test of isConnected and readyState.
sendUnguarded(s, type, data) ==
    [s EXCEPT !.sent = Append(@, [type |-> type, timestamp |-> "now", data |-> data]),
              !.effects = Append(@, [kind |-> "send", what |-> type]),
              !.returned = "true"]

\* send(type, data): data is the timestamp carried in the payload, or "none".
send(s, type, data) ==
    IF ~s.isConnected \/ s.ws # "OPEN"
    THEN [s EXCEPT !.returned = "false"]
    ELSE [s EXCEPT !.sent = Append(@, [type |-> type, timestamp |-> "now", data |-> data]),
                   !.effects = Append(@, [kind |-> "send", what |-> type]),
                   !.returned = "true"]

\* send(type, data) with data that JSON.stringify rejects: false from the guard,
\* or false from the catch.
sendUnserializable(s, type) == [s EXCEPT !.returned = "false"]

\* connect() that swallows a construction failure without scheduling anything.
connectIgnoreFailure(s, urlOk) ==
    IF s.ws \in {"CONNECTING", "OPEN"} \/ ~urlOk
    THEN s
    ELSE [s EXCEPT !.ws = "CONNECTING",
                   !.stale = IF s.ws = "CLOSING"
                             THEN [@ EXCEPT !["attClosing"] = @ + 1] ELSE @,
                   !.connTimeouts = @ + 1]

\* connect() without the connection timeout.
connectNoTimeout(s, urlOk) ==
    IF s.ws \in {"CONNECTING", "OPEN"}
    THEN s
    ELSE IF urlOk
         THEN [s EXCEPT !.ws = "CONNECTING",
                        !.stale = IF s.ws = "CLOSING"
                                  THEN [@ EXCEPT !["attClosing"] = @ + 1] ELSE @]
         ELSE scheduleReconnect(s)

\* connect() with the transport construction succeeding (urlOk) or throwing.
connect(s, urlOk) ==
    IF s.ws \in {"CONNECTING", "OPEN"}
    THEN s
    ELSE IF urlOk
         THEN [s EXCEPT !.ws = "CONNECTING",
                        !.stale = IF s.ws = "CLOSING"
                                  THEN [@ EXCEPT !["attClosing"] = @ + 1] ELSE @,
                        !.connTimeouts = @ + 1]
         ELSE scheduleReconnect(s)

\* Whether connect() would create a transport or time-out callback beyond the bounds.
connectFits(s, urlOk) ==
    \/ s.ws \in {"CONNECTING", "OPEN"}
    \/ ~urlOk
    \/ /\ s.connTimeouts < MaxConnTimeouts
       /\ (s.ws = "CLOSING" => StaleCount(s.stale) < MaxStale)

disconnect(s) ==
    LET t == clearTimers([s EXCEPT !.isConnected = FALSE])
        kind == CASE s.ws = "CONNECTING" -> "detConnecting"
                  [] s.ws = "OPEN" -> "detClosing"
                  [] s.ws = "CLOSING" -> "detClosing"
                  [] OTHER -> "none"
        u == IF kind = "none"
             THEN [t EXCEPT !.ws = "null"]
             ELSE [t EXCEPT !.ws = "null", !.stale = [@ EXCEPT ![kind] = @ + 1]]
    IN notifyConnectionChange([u EXCEPT !.gaveUp = FALSE], "disconnected")

startHeartbeat(s) ==
    [s EXCEPT !.heartbeatTimer = "active",
              !.effects = Append(@, [kind |-> "setInterval", what |-> "heartbeat"])]

\* The channels of a subscription, by the name of the channel list.
DefaultChannels == "telemetry,session,timing,strategy"
ChannelSets == {DefaultChannels, "telemetry", ""}

\* onOpen that leaves reconnectAttempts as it is.
onOpenKeepAttempts(s) ==
    LET a == clearTimers([s EXCEPT !.isConnected = TRUE, !.gaveUp = FALSE,
                                   !.unackedPings = 0])
        b == startHeartbeat(a)
        c == IF apiKey THEN send(b, "auth", "none") ELSE b
        d == send(c, "subscribe", DefaultChannels)
    IN notifyConnectionChange(d, "connected")

\* onOpen with the subscription sent before the authentication.
onOpenSubscribeFirst(s) ==
    LET a == clearTimers([s EXCEPT !.isConnected = TRUE, !.reconnectAttempts = 0,
                                   !.lastDelay = 0, !.gaveUp = FALSE,
                                   !.unackedPings = 0])
        b == startHeartbeat(a)
        c == send(b, "subscribe", DefaultChannels)
        d == IF apiKey THEN send(c, "auth", "none") ELSE c
    IN notifyConnectionChange(d, "connected")

onOpen(s) ==
    LET a == clearTimers([s EXCEPT !.isConnected = TRUE, !.reconnectAttempts = 0,
                                   !.lastDelay = 0, !.gaveUp = FALSE,
                                   !.unackedPings = 0])
        b == startHeartbeat(a)
        c == IF apiKey THEN send(b, "auth", "none") ELSE b
        d == send(c, "subscribe", DefaultChannels)
    IN notifyConnectionChange(d, "connected")

\* updateSubscription(channels); requested follows the subscriptions that went out.
updateSubscription(s, channels) ==
    LET a == send(s, "subscribe", channels) IN
    IF Len(a.sent) > Len(s.sent) THEN [a EXCEPT !.requested = channels] ELSE a

\* onClose without the clean-close test.
onCloseAnyCode(s, code) ==
    notifyConnectionChange(scheduleReconnect(clearTimers([s EXCEPT !.isConnected = FALSE])),
                           "disconnected")

\* onClose that clears the reconnect timer only.
onCloseKeepHeartbeat(s, code) ==
    LET a == [s EXCEPT !.isConnected = FALSE, !.reconnectTimer = "null"]
        b == IF code # CleanClose THEN scheduleReconnect(a) ELSE a
    IN notifyConnectionChange(b, "disconnected")

onClose(s, code) ==
    LET a == clearTimers([s EXCEPT !.isConnected = FALSE])
        b == IF code # CleanClose THEN scheduleReconnect(a) ELSE a
    IN notifyConnectionChange(b, "disconnected")

onError(s) == notifyConnectionChange(s, "error")

\* ----------------------------------------------------- handler registry

on(list, h) == Append(list, h)

IndexOf(list, h) ==
    IF \E i \in 1..Len(list) : list[i] = h
    THEN CHOOSE i \in 1..Len(list) : list[i] = h /\ \A j \in 1..(i - 1) : list[j] # h
    ELSE 0

\* Removal of every registration of the handler instead of the first one.
offAll(list, h) == SelectSeq(list, LAMBDA x : x # h)

off(list, h) ==
    LET i == IndexOf(list, h) IN
    IF i > 0
    THEN SubSeq(list, 1, i - 1) \o SubSeq(list, i + 1, Len(list))
    ELSE list

\* What a handler does to the list of its own type when it is called.
HandlerEffect(list, h) ==
    CASE h = "offSelf" -> off(list, h)
      [] h = "onPlain" -> on(list, "plain")
      [] OTHER -> list

\* forEach without the try/catch around each call: the first throw ends the loop.
RECURSIVE ForEachNoCatch(_, _, _, _)
ForEachNoCatch(list, k, len, calls) ==
    IF k > len
    THEN [list |-> list, calls |-> calls]
    ELSE IF k > Len(list)
         THEN ForEachNoCatch(list, k + 1, len, calls)
         ELSE IF list[k] = "thrower"
              THEN [list |-> list, calls |-> Append(calls, list[k])]
              ELSE ForEachNoCatch(HandlerEffect(list, list[k]), k + 1, len,
                                  Append(calls, list[k]))

\* handlers.forEach(...): visits the indices below the length read at the start
\* that still exist when reached; each call is wrapped in try/catch.
RECURSIVE ForEach(_, _, _, _)
ForEach(list, k, len, calls) ==
    IF k > len
    THEN [list |-> list, calls |-> calls]
    ELSE IF k > Len(list)
         THEN ForEach(list, k + 1, len, calls)
         ELSE ForEach(HandlerEffect(list, list[k]), k + 1, len, Append(calls, list[k]))

\* A parser that takes every frame without a readable type for telemetry.
ParseDefaultType(data) ==
    [threw |-> FALSE,
     type |-> IF data.text = "json" THEN data.type ELSE "telemetry",
     timestamp |-> data.timestamp]

\* JSON.parse(event.data) and the destructuring of the result: either of them
\* throws (text that is no JSON, destructuring null), or type and timestamp are
\* the properties of the parsed value (undefined when it has none).
Parse(data) ==
    CASE data.text \in {"notJSON", "null"} ->
             [threw |-> TRUE, type |-> "undefined", timestamp |-> "undefined"]
      [] data.text = "noType" ->
             [threw |-> FALSE, type |-> "undefined", timestamp |-> data.timestamp]
      [] OTHER ->
             [threw |-> FALSE, type |-> data.type, timestamp |-> data.timestamp]

\* onMessage: the calls made and the registry left.
\* Routing without the ping/pong short-circuit.
RouteNoIntercept(handlers, frame) ==
    IF frame.type \notin DOMAIN handlers
    THEN [handlers |-> handlers, calls |-> <<>>, atStart |-> <<>>]
    ELSE LET r == ForEach(handlers[frame.type], 1, Len(handlers[frame.type]), <<>>) IN
         [handlers |-> [handlers EXCEPT ![frame.type] = r.list], calls |-> r.calls,
          atStart |-> handlers[frame.type]]

\* An empty list stands for a type the Map has no entry for as well.
Route(handlers, frame) ==
    LET m == Parse(frame) IN
    IF m.threw \/ m.type \in SystemTypes \/ m.type \notin DOMAIN handlers
    THEN [handlers |-> handlers, calls |-> <<>>, atStart |-> <<>>]
    ELSE LET r == ForEach(handlers[m.type], 1, Len(handlers[m.type]), <<>>) IN
         [handlers |-> [handlers EXCEPT ![m.type] = r.list], calls |-> r.calls,
          atStart |-> handlers[m.type]]

RECURSIVE SumLen(_, _)
SumLen(handlers, types) ==
    IF types = {} THEN 0
    ELSE LET t == CHOOSE x \in types : TRUE IN
         Len(handlers[t]) + SumLen(handlers, types \ {t})

Registered(handlers) == SumLen(handlers, DOMAIN handlers)

onMessage(s, frame) ==
    LET m == Parse(frame) IN
    CASE m.threw -> s
      [] m.type = "ping" -> send(s, "pong", m.timestamp)
      [] m.type = "pong" -> [s EXCEPT !.unackedPings = 0]
      [] OTHER -> s

\* ------------------------------------------------- TelemetryProcessor
\* (src/unnamed/part_002).  Fuel quantities are in tenths of a litre, gaps in
\* thousandths of a second; quotients are exact fractions n/d, where d = 0 stands
\* for what a division by zero gives (n = 1: Infinity, n = 0: NaN).

RECURSIVE Gcd(_, _)
Gcd(a, b) == IF b = 0 THEN a ELSE Gcd(b, a % b)

\* a / b for a, b >= 0.
Div(a, b) ==
    IF b = 0
    THEN [n |-> IF a = 0 THEN 0 ELSE 1, d |-> 0]
    ELSE [n |-> a \div Gcd(a, b), d |-> b \div Gcd(a, b)]

\* q < k, for a fraction q and an integer k (false for Infinity and NaN).
Less(q, k) == q.d > 0 /\ q.n < k * q.d

Finite(q) == q.d > 0

Corners == {"fl", "fr", "rl", "rr"}

\* A value of the tireTemps field: an object with its keys, or null.
TireObject(f) == [null |-> FALSE, temps |-> f]
TireNull == [null |-> TRUE, temps |-> [c \in {} |-> 0]]

\* Keys every object inherits from Object.prototype: 'key in obj' is true for them.
PrototypeKeys == {"toString", "constructor"}

\* this.currentData as the constructor builds it (the fields the model follows).
SchemaData ==
    [speed |-> 0, maxSpeed |-> 0, rpm |-> 0, engineTemp |-> 0, engineHealth |-> 100,
     fuelLevel |-> 0, fuelCapacity |-> 1000, fuelUsagePerLap |-> 0,
     estimatedLapsRemaining |-> Div(0, 1), pitWindowOpen |-> FALSE,
     tireTemps |-> TireObject([c \in Corners |-> 0]),
     gapAhead |-> 0, gapBehind |-> 0, drsStatus |-> "CLOSED"]

\* The fields initializeDemoData lists.
DemoData ==
    [speed |-> 287, maxSpeed |-> 320, rpm |-> 11847, engineTemp |-> 89,
     fuelLevel |-> 187, fuelUsagePerLap |-> 21,
     estimatedLapsRemaining |-> Div(89, 10), pitWindowOpen |-> TRUE,
     tireTemps |-> TireObject([fl |-> 89, fr |-> 91, rl |-> 95, rr |-> 93]),
     gapAhead |-> 2847, gapBehind |-> 1234, drsStatus |-> "OPEN"]

EmptyHistory ==
    [timestamps |-> <<>>, speed |-> <<>>, rpm |-> <<>>, fuelLevel |-> <<>>,
     engineTemp |-> <<>>, tireTemps |-> [c \in Corners |-> <<>>]]

\* { ...a, ...b }
Spread(a, b) ==
    [k \in DOMAIN a \cup DOMAIN b |-> IF k \in DOMAIN b THEN b[k] ELSE a[k]]

\* key in obj
In(key, obj) == key \in DOMAIN obj \/ key \in PrototypeKeys

RECURSIVE SumOf(_, _)
SumOf(f, keys) ==
    IF keys = {} THEN 0
    ELSE LET k == CHOOSE x \in keys : TRUE IN f[k] + SumOf(f, keys \ {k})

MaxOf(f) == IF DOMAIN f = {} THEN -1
            ELSE CHOOSE m \in {f[k] : k \in DOMAIN f} : \A k \in DOMAIN f : f[k] <= m

\* generateAISuggestions appending to the list it finds.
generateAISuggestionsAppend(p) ==
    LET d == p.currentData
        rule(c, type) == IF c THEN <<type>> ELSE <<>>
    IN [p EXCEPT !.aiSuggestions =
          @ \o rule("fuelPercentage" \in DOMAIN d /\ Less(d.fuelPercentage, 25), "strategy")
            \o rule(d.fuelUsagePerLap > 25, "fuel")
            \o rule(MaxOf(d.tireTemps.temps) > 100, "tires")
            \o rule(d.gapAhead < 1000 /\ d.drsStatus = "AVAILABLE", "overtake")
            \o rule(d.gapBehind < 1500, "defense")
            \o rule(d.engineTemp > 95, "engine")]

\* The rules evaluated with the overtake and defense rules swapped.
generateAISuggestionsDefenseFirst(p) ==
    LET d == p.currentData
        rule(c, type) == IF c THEN <<type>> ELSE <<>>
    IN [p EXCEPT !.aiSuggestions =
               rule("fuelPercentage" \in DOMAIN d /\ Less(d.fuelPercentage, 25), "strategy")
            \o rule(d.fuelUsagePerLap > 25, "fuel")
            \o rule(MaxOf(d.tireTemps.temps) > 100, "tires")
            \o rule(d.gapBehind < 1500, "defense")
            \o rule(d.gapAhead < 1000 /\ d.drsStatus = "AVAILABLE", "overtake")
            \o rule(d.engineTemp > 95, "engine")]

\* The suggestions by their type, in rule order; Object.values(null) throws at
\* the tire rule, after the list was emptied and the fuel rules were applied.
generateAISuggestions(p) ==
    LET d == p.currentData
        rule(c, type) == IF c THEN <<type>> ELSE <<>>
        fuel == rule("fuelPercentage" \in DOMAIN d /\ Less(d.fuelPercentage, 25), "strategy")
                \o rule(d.fuelUsagePerLap > 25, "fuel")
    IN IF d.tireTemps.null
       THEN [p EXCEPT !.aiSuggestions = fuel, !.threw = TRUE]
       ELSE [p EXCEPT !.aiSuggestions =
               fuel \o rule(MaxOf(d.tireTemps.temps) > 100, "tires")
                    \o rule(d.gapAhead < 1000 /\ d.drsStatus = "AVAILABLE", "overtake")
                    \o rule(d.gapBehind < 1500, "defense")
                    \o rule(d.engineTemp > 95, "engine")]

initializeDemoData(p) ==
    generateAISuggestions([p EXCEPT !.currentData = Spread(@, DemoData)])

\* The derived values in the order they are assigned; Object.values(null) throws
\* before avgTireTemp and pitWindowOpen are assigned.
calculateDerivedValues(p) ==
    LET d0 == p.currentData
        d1 == IF d0.speed > d0.maxSpeed THEN [d0 EXCEPT !.maxSpeed = d0.speed] ELSE d0
        d2 == Spread(d1, [fuelPercentage |-> Div(d1.fuelLevel * 100, d1.fuelCapacity)])
        d3 == IF d2.fuelUsagePerLap > 0
              THEN [d2 EXCEPT !.estimatedLapsRemaining = Div(d2.fuelLevel, d2.fuelUsagePerLap)]
              ELSE d2
        t == d3.tireTemps.temps
        d4 == Spread(d3, [avgTireTemp |-> Div(SumOf(t, DOMAIN t), Cardinality(DOMAIN t))])
        d5 == [d4 EXCEPT !.pitWindowOpen =
                  Less(d4.fuelPercentage, 30) \/ Less(d4.estimatedLapsRemaining, 3)]
    IN IF d3.tireTemps.null
       THEN [p EXCEPT !.currentData = d3, !.threw = TRUE]
       ELSE [p EXCEPT !.currentData = d5]

\* A merge that gives every field the payload does not name its constructor value.
updateCurrentDataReplace(p, newData) ==
    calculateDerivedValues(
        [p EXCEPT !.currentData =
            [k \in DOMAIN @ |-> IF k \in DOMAIN newData THEN newData[k]
                                ELSE IF k \in DOMAIN SchemaData THEN SchemaData[k]
                                ELSE @[k]]])

updateCurrentData(p, newData) ==
    LET taken == {k \in DOMAIN newData : In(k, p.currentData)} IN
    calculateDerivedValues(
        [p EXCEPT !.currentData = Spread(@, [k \in taken |-> newData[k]])])

\* slice(-maxHistoryLength) of an array longer than maxHistoryLength
Trim(ring) ==
    IF Len(ring) > MaxHistoryLength
    THEN SubSeq(ring, Len(ring) - MaxHistoryLength + 1, Len(ring))
    ELSE ring

\* timestamp || Date.now(): a frame without timestamp (0) gets the clock reading,
\* which is later than every frame timestamp.
CurrentTime(timestamp) == IF timestamp = 0 THEN 3 ELSE timestamp

\* The pushes, the per-corner pushes (dataHistory.tireTemps[tire] is undefined for
\* a key that is no corner, and Object.keys(null) throws), then the trimming.
\* A tireTemps object has corner keys only or no corner key at all.
updateHistory(p, timestamp) ==
    LET d == p.currentData
        h == p.dataHistory
        h1 == [h EXCEPT !.timestamps = Append(@, CurrentTime(timestamp)),
                        !.speed = Append(@, d.speed),
                        !.rpm = Append(@, d.rpm),
                        !.fuelLevel = Append(@, d.fuelLevel),
                        !.engineTemp = Append(@, d.engineTemp)]
        t == d.tireTemps.temps
        h2 == [h1 EXCEPT !.tireTemps =
                 [c \in Corners |-> IF c \in DOMAIN t THEN Append(@[c], t[c]) ELSE @[c]]]
        h3 == [timestamps |-> Trim(h2.timestamps), speed |-> Trim(h2.speed),
               rpm |-> Trim(h2.rpm), fuelLevel |-> Trim(h2.fuelLevel),
               engineTemp |-> Trim(h2.engineTemp),
               tireTemps |-> [c \in Corners |-> Trim(h2.tireTemps[c])]]
    IN IF d.tireTemps.null \/ ~(DOMAIN t \subseteq Corners)
       THEN [p EXCEPT !.dataHistory = h1, !.threw = TRUE]
       ELSE [p EXCEPT !.dataHistory = h3]

\* The update subscribers; the callback "broken" throws whenever it is called.
CallbackIds == {"render", "broken"}

\* The update callbacks run, each inside its own try/catch.
notifyUpdateCallbacks(p) ==
    [p EXCEPT !.notified = TRUE, !.calledBack = p.updateCallbacks]

\* onUpdate(callback): push
onUpdate(p, callback) == [p EXCEPT !.updateCallbacks = Append(@, callback)]

\* offUpdate(callback): splice at indexOf when the callback is registered
offUpdate(p, callback) ==
    LET cbs == p.updateCallbacks
        i == IndexOf(cbs, callback)
    IN IF i > 0
       THEN [p EXCEPT !.updateCallbacks = SubSeq(cbs, 1, i - 1) \o SubSeq(cbs, i + 1, Len(cbs))]
       ELSE p

\* regenerate is the outcome of Math.random() < 0.1; the catch ends the
\* processing at the first exception.
processTelemetryData(p, data, timestamp, regenerate) ==
    LET a == updateCurrentData(p, data)
        b == IF a.threw THEN a ELSE updateHistory(a, timestamp)
        c == IF b.threw \/ ~regenerate THEN b ELSE generateAISuggestions(b)
    IN IF c.threw THEN c ELSE notifyUpdateCallbacks(c)

reset(p) ==
    notifyUpdateCallbacks([initializeDemoData(p) EXCEPT !.dataHistory = EmptyHistory])

\* The processor object, with what the current step has thrown and notified so far.
Processor ==
    [currentData |-> currentData, dataHistory |-> dataHistory,
     aiSuggestions |-> aiSuggestions, threw |-> FALSE, notified |-> FALSE,
     updateCallbacks |-> updateCallbacks, calledBack |-> <<>>]

\* new TelemetryProcessor()
Constructed ==
    initializeDemoData([currentData |-> SchemaData, dataHistory |-> EmptyHistory,
                        aiSuggestions |-> <<>>, threw |-> FALSE, notified |-> FALSE,
                        updateCallbacks |-> <<>>, calledBack |-> <<>>])

HotCorners == TireObject([c \in Corners |-> 105])
OtherCornerKeys == TireObject([frontLeft |-> 90, frontRight |-> 90,
                               rearLeft |-> 90, rearRight |-> 90])

\* A write on a value an accessor returned: the accessor and the path from the
\* returned value to the property that is assigned.
CallerWrites ==
    {[via |-> "getCurrentData", path |-> <<"speed">>],
     [via |-> "getCurrentData", path |-> <<"tireTemps", "fl">>],
     [via |-> "getDataHistory", path |-> <<"speed">>],
     [via |-> "getDataHistory", path |-> <<"speed", "length">>],
     [via |-> "getAISuggestions", path |-> <<"0">>],
     [via |-> "getAISuggestions", path |-> <<"0", "type">>]}

NoCall == [via |-> "none", path |-> <<>>]

\* What the write does to the object the processor holds at the first step of
\* the path: tireTemps.fl = 0, speed.length = 0, [0].type = 'edited'.
writeThrough(p, w) ==
    CASE w.via = "getCurrentData" ->
             IF ~p.currentData.tireTemps.null /\ "fl" \in DOMAIN p.currentData.tireTemps.temps
             THEN [p EXCEPT !.currentData.tireTemps.temps["fl"] = 0]
             ELSE p
      [] w.via = "getDataHistory" -> [p EXCEPT !.dataHistory.speed = <<>>]
      [] w.via = "getAISuggestions" ->
             IF p.aiSuggestions # <<>> THEN [p EXCEPT !.aiSuggestions[1] = "edited"] ELSE p

\* { ...this.currentData }, { ...this.dataHistory } and [...this.aiSuggestions]
\* copy the properties of the object itself, so a write on a property of the
\* returned value stays in the copy; a property that holds an object or an array
\* is the same object in the copy, so a write below it is a write on the
\* processor's object.
callerWrite(p, w) == IF Len(w.path) > 1 THEN writeThrough(p, w) ELSE p

\* The data objects of the telemetry frames: partial updates, one with keys the
\* snapshot does not have, one with tireTemps null.
Payloads ==
    {[speed |-> 330, tireTemps |-> HotCorners, engineTemp |-> 98,
      gapAhead |-> 800, drsStatus |-> "AVAILABLE"],
     [fuelLevel |-> 400],
     [fuelLevel |-> 187, fuelCapacity |-> 1000, fuelUsagePerLap |-> 25],
     [fuelUsagePerLap |-> 0],
     [fuelCapacity |-> 500],
     [fuelLevel |-> 100, fuelCapacity |-> 500, fuelUsagePerLap |-> 30],
     [tireTemps |-> TireNull, fuelLevel |-> 400],
     [toString |-> 1, lapDelta |-> 1]}

\* Data objects that are processed to the end next to data objects that make the
\* derive step or the recording throw.
WellFormedPayloads == {[fuelLevel |-> 400], [tireTemps |-> HotCorners]}
FaultPayloads ==
    WellFormedPayloads
    \cup {[tireTemps |-> TireNull, fuelLevel |-> 400], [tireTemps |-> OtherCornerKeys]}

\* Data objects that differ in what reaches the History Rings.
HistoryPayloads ==
    {[speed |-> 330, tireTemps |-> HotCorners],
     [fuelLevel |-> 400],
     [tireTemps |-> OtherCornerKeys]}

NoPayload == [none |-> 0]

\* ------------------------------------------------------------------ Init

Init ==
    /\ ws = "null"
    /\ isConnected = FALSE
    /\ reconnectAttempts = 0
    /\ reconnectTimer = "null"
    /\ heartbeatTimer = "null"
    /\ messageHandlers = [t \in HandlerTypes |-> <<>>]
    /\ serverUrlValid = TRUE
    /\ apiKey = FALSE
    /\ reconnectInterval \in ReconnectIntervals
    /\ orphanTimers = 0
    /\ connTimeouts = 0
    /\ stale = NoStale
    /\ delivered = <<>>
    /\ lastStatus = "none"
    /\ sent = <<>>
    /\ invoked = <<>>
    /\ atStart = <<>>
    /\ lastFrame = NoFrame
    /\ lastClose = NoCloseEvent
    /\ lastDelay = 0
    /\ lastOp = "init"
    /\ lastArg = NoArg
    /\ gaveUp = FALSE
    /\ disconnected = FALSE
    /\ unackedPings = 0
    /\ currentData = Constructed.currentData
    /\ dataHistory = Constructed.dataHistory
    /\ aiSuggestions = Constructed.aiSuggestions
    /\ lastPayload = NoPayload
    /\ threw = FALSE
    /\ notified = FALSE
    /\ lastCall = NoCall
    /\ effects = <<>>
    /\ requested = DefaultChannels
    /\ returned = "none"
    /\ updateCallbacks = Constructed.updateCallbacks
    /\ calledBack = <<>>

\* --------------------------------------------------------------- actions

Step(name, s) ==
    /\ Commit(s)
    /\ lastOp' = name
    /\ UNCHANGED configVars
    /\ UNCHANGED processorVars

NoClose == lastClose' = NoCloseEvent

NoRegistryCall == lastArg' = NoArg

NoDispatch ==
    /\ invoked' = <<>>
    /\ atStart' = <<>>
    /\ lastFrame' = NoFrame
    /\ NoRegistryCall
    /\ UNCHANGED messageHandlers


\* The application connects: ui-controller sets config.serverUrl and
\* config.apiKey, then calls connect().
ConnectWith(urlOk, key) ==
    /\ connectFits(Self, urlOk)
    /\ (ws \notin {"CONNECTING", "OPEN"} /\ ~urlOk)
         => orphanTimers + (IF reconnectTimer = "pending" THEN 1 ELSE 0) <= MaxOrphanTimers
    /\ serverUrlValid' = urlOk
    /\ apiKey' = key
    /\ disconnected' = FALSE
    /\ Step("Connect", connect([Self EXCEPT !.gaveUp = FALSE], urlOk))
    /\ NoDispatch
    /\ NoClose

Connect == \E urlOk \in BOOLEAN, key \in BOOLEAN : ConnectWith(urlOk, key)

Disconnect ==
    /\ ws \in {"CONNECTING", "OPEN", "CLOSING"} => StaleCount(stale) < MaxStale
    /\ disconnected' = TRUE
    /\ Step("Disconnect", disconnect(Self))
    /\ NoDispatch
    /\ NoClose
    /\ UNCHANGED <<serverUrlValid, apiKey>>

\* Transport events on the current transport.
TransportOpen ==
    /\ ws = "CONNECTING"
    /\ Step("TransportOpen", onOpen([Self EXCEPT !.ws = "OPEN"]))
    /\ NoDispatch
    /\ NoClose
    /\ UNCHANGED <<serverUrlValid, apiKey, disconnected>>

\* The close event, preceded by an error event when the close is abnormal.
TransportClose ==
    \E code \in CloseCodes, withError \in BOOLEAN :
        /\ ws \in {"CONNECTING", "OPEN", "CLOSING"}
        /\ ws # "OPEN" => code = 1006
        /\ withError => code = 1006
        /\ LET a == [Self EXCEPT !.ws = "CLOSED"]
               b == IF withError THEN onError(a) ELSE a
           IN Step("TransportClose", onClose(b, code))
        /\ lastClose' = [code |-> code, from |-> ws]
        /\ NoDispatch
        /\ UNCHANGED <<serverUrlValid, apiKey, disconnected>>

TransportMessage ==
    \E frame \in Received :
        /\ ws = "OPEN"
        /\ LET r == Route(messageHandlers, frame) IN
             /\ Registered(r.handlers) <= MaxHandlers
             /\ messageHandlers' = r.handlers
             /\ invoked' = r.calls
             /\ atStart' = r.atStart
        /\ lastFrame' = frame
        /\ NoRegistryCall
        /\ Step("TransportMessage", onMessage(Self, frame))
        /\ NoClose
        /\ UNCHANGED <<serverUrlValid, apiKey, disconnected>>

\* The close event of a superseded transport whose listeners are still attached.
StaleClose ==
    \E withError \in BOOLEAN :
        /\ stale["attClosing"] > 0
        /\ LET a == [Self EXCEPT !.stale = [@ EXCEPT !["attClosing"] = @ - 1]]
               b == IF withError THEN onError(a) ELSE a
           IN Step("StaleClose", onClose(b, 1006))
        /\ lastClose' = [code |-> 1006, from |-> "CLOSING"]
        /\ NoDispatch
        /\ UNCHANGED <<serverUrlValid, apiKey, disconnected>>

\* A transport whose listeners disconnect() removed goes on by itself.
DetachedProgress ==
    \E from \in {"detConnecting", "detOpen", "detClosing"},
       to \in {"detOpen", "gone"} :
        /\ stale[from] > 0
        /\ to = "detOpen" => from = "detConnecting"
        /\ LET a == [stale EXCEPT ![from] = @ - 1]
               b == IF to = "gone" THEN a ELSE [a EXCEPT ![to] = @ + 1]
           IN Step("DetachedProgress", [Self EXCEPT !.stale = b])
        /\ NoDispatch
        /\ NoClose
        /\ UNCHANGED <<serverUrlValid, apiKey, disconnected>>

\* Timers.
ReconnectTimerFire ==
    /\ reconnectTimer = "pending"
    /\ connectFits(Self, serverUrlValid)
    /\ Step("ReconnectTimerFire",
            connect([Self EXCEPT !.reconnectTimer = "fired"], serverUrlValid))
    /\ NoDispatch
    /\ NoClose
    /\ UNCHANGED <<serverUrlValid, apiKey, disconnected>>

OrphanTimerFire ==
    /\ orphanTimers > 0
    /\ connectFits(Self, serverUrlValid)
    /\ Step("OrphanTimerFire",
            connect([Self EXCEPT !.orphanTimers = @ - 1], serverUrlValid))
    /\ NoDispatch
    /\ NoClose
    /\ UNCHANGED <<serverUrlValid, apiKey, disconnected>>

HeartbeatFire ==
    /\ heartbeatTimer = "active"
    /\ LET a == IF isConnected THEN send(Self, "ping", "now") ELSE Self
           b == IF Len(a.sent) > 0
                THEN [a EXCEPT !.unackedPings = Min(@ + 1, 2)] ELSE a
       IN Step("HeartbeatFire", b)
    /\ NoDispatch
    /\ NoClose
    /\ UNCHANGED <<serverUrlValid, apiKey, disconnected>>

ConnTimeoutFire ==
    /\ connTimeouts > 0
    /\ LET a == [Self EXCEPT !.connTimeouts = @ - 1]
           b == IF a.ws = "CONNECTING" THEN [a EXCEPT !.ws = "CLOSING"] ELSE a
       IN Step("ConnTimeoutFire", b)
    /\ NoDispatch
    /\ NoClose
    /\ UNCHANGED <<serverUrlValid, apiKey, disconnected>>

\* The application changes its subscription.
UpdateSubscription ==
    \E channels \in ChannelSets :
        /\ Step("UpdateSubscription", updateSubscription(Self, channels))
        /\ NoDispatch
        /\ NoClose
        /\ UNCHANGED <<serverUrlValid, apiKey, disconnected>>

\* The application registers or removes a message handler.
RegistryStep(name, t, h, handlers) ==
    /\ messageHandlers' = handlers
    /\ lastArg' = [type |-> t, handler |-> h]
    /\ invoked' = <<>>
    /\ atStart' = <<>>
    /\ lastFrame' = NoFrame
    /\ Step(name, Self)
    /\ NoClose
    /\ UNCHANGED <<serverUrlValid, apiKey, disconnected>>

On ==
    \E t \in HandlerTypes, h \in HandlerIds :
        /\ Registered(messageHandlers) < MaxHandlers
        /\ RegistryStep("On", t, h, [messageHandlers EXCEPT ![t] = on(@, h)])

OffWith(t, h) == RegistryStep("Off", t, h, [messageHandlers EXCEPT ![t] = off(@, h)])

Off == \E t \in HandlerTypes, h \in HandlerIds : OffWith(t, h)

\* off() for a handler that is registered.
OffRegistered ==
    \E t \in HandlerTypes, h \in HandlerIds :
        IndexOf(messageHandlers[t], h) > 0 /\ OffWith(t, h)

\* The connection lifecycle: application calls, transport events and timers.
Next ==
    \/ Connect
    \/ Disconnect
    \/ TransportOpen
    \/ TransportClose
    \/ TransportMessage
    \/ StaleClose
    \/ DetachedProgress
    \/ ReconnectTimerFire
    \/ OrphanTimerFire
    \/ HeartbeatFire
    \/ ConnTimeoutFire

Spec == Init /\ [][Next]_vars

\* Timers that are pending fire, and a transport the client closed reports its close.
LocalCloseCompletes == TransportClose /\ ws = "CLOSING"

Fairness ==
    /\ WF_vars(ReconnectTimerFire)
    /\ WF_vars(OrphanTimerFire)
    /\ WF_vars(ConnTimeoutFire)
    /\ WF_vars(LocalCloseCompletes)
    /\ WF_vars(StaleClose)

\* The lifecycle with the default reconnectInterval and no apiKey, without incoming
\* frames and heartbeats (neither touches the reconnect timer).
DefaultInit == Init /\ reconnectInterval = 3000

ConnectNoKey == \E urlOk \in BOOLEAN : ConnectWith(urlOk, FALSE)

FairNext ==
    \/ ConnectNoKey
    \/ Disconnect
    \/ TransportOpen
    \/ TransportClose
    \/ StaleClose
    \/ DetachedProgress
    \/ ReconnectTimerFire
    \/ OrphanTimerFire
    \/ ConnTimeoutFire

SpecFair == DefaultInit /\ [][FairNext]_vars /\ Fairness

\* Message routing on one connection that stays up.
ConnectValid == ConnectWith(TRUE, FALSE)

RouterNext ==
    \/ ConnectValid
    \/ TransportOpen
    \/ TransportMessage
    \/ On
    \/ OffRegistered

SpecRouter == DefaultInit /\ [][RouterNext]_vars

\* Connection attempts on which the transport reports nothing by itself: the only
\* close events are those of transports the client has closed.
SilentNext ==
    \/ ConnectNoKey
    \/ Disconnect
    \/ LocalCloseCompletes
    \/ StaleClose
    \/ DetachedProgress
    \/ ReconnectTimerFire
    \/ OrphanTimerFire
    \/ ConnTimeoutFire

SpecSilent == DefaultInit /\ [][SilentNext]_vars /\ Fairness

\* The application sends a request: requestTelemetry(), sendVoiceCommand() or
\* requestStrategy(), with data that can be serialised or not.
RequestTypes == {"request_telemetry", "voice_command"}

SendRequest ==
    \E type \in RequestTypes, serializable \in BOOLEAN :
        /\ Step("Send", IF serializable THEN send(Self, type, "none")
                                         ELSE sendUnserializable(Self, type))
        /\ lastArg' = [type |-> type, handler |-> IF serializable THEN "json" ELSE "circular"]
        /\ invoked' = <<>>
        /\ atStart' = <<>>
        /\ lastFrame' = NoFrame
        /\ UNCHANGED messageHandlers
        /\ NoClose
        /\ UNCHANGED <<serverUrlValid, apiKey, disconnected>>

\* The lifecycle with requests of the application in every state.
SendNext == FairNext \/ SendRequest

SpecSend == DefaultInit /\ [][SendNext]_vars

\* Subscriptions over connections that drop and are re-established.
SubscriptionNext ==
    \/ ConnectValid
    \/ TransportOpen
    \/ TransportClose
    \/ ReconnectTimerFire
    \/ HeartbeatFire
    \/ UpdateSubscription

SpecSubscription == DefaultInit /\ [][SubscriptionNext]_vars

\* The handler registry under every on()/off() call.
RegistryNext == On \/ Off

SpecRegistry == DefaultInit /\ [][RegistryNext]_vars

CommitProcessor(name, p) ==
    /\ currentData' = p.currentData
    /\ dataHistory' = p.dataHistory
    /\ aiSuggestions' = p.aiSuggestions
    /\ threw' = p.threw
    /\ notified' = p.notified
    /\ updateCallbacks' = p.updateCallbacks
    /\ calledBack' = p.calledBack
    /\ lastOp' = name
    /\ UNCHANGED clientVars

\* The 'telemetry' handler of the UI: processTelemetryData(data, timestamp).
ProcessWith(data, timestamp, regenerate) ==
    LET p == processTelemetryData(Processor, data, timestamp, regenerate) IN
    /\ Len(p.dataHistory.timestamps) <= MaxHistoryLength + MaxOverflow
    /\ lastPayload' = data
    /\ lastCall' = NoCall
    /\ CommitProcessor("ProcessTelemetry", p)

\* Telemetry frames that all carry the same timestamp.
ProcessTelemetry ==
    \E data \in Payloads, regenerate \in BOOLEAN : ProcessWith(data, 1, regenerate)

RecordTelemetry ==
    \E data \in HistoryPayloads, timestamp \in Timestamps, regenerate \in BOOLEAN :
        ProcessWith(data, timestamp, regenerate)

\* refreshAllPanels: reset()
Reset ==
    /\ lastPayload' = NoPayload
    /\ lastCall' = NoCall
    /\ CommitProcessor("Reset", reset(Processor))

\* A caller of getCurrentData(), getDataHistory() or getAISuggestions() writes
\* into the value it got.
CallerWrite ==
    \E w \in CallerWrites :
        /\ lastPayload' = NoPayload
        /\ lastCall' = w
        /\ CommitProcessor("CallerWrite", callerWrite(Processor, w))

\* Telemetry frames among which some make the processing throw.
ProcessFaulty ==
    \E data \in FaultPayloads, regenerate \in BOOLEAN : ProcessWith(data, 1, regenerate)

\* The application subscribes to and unsubscribes from the updates.
SubscriberStep(name, p) ==
    /\ lastPayload' = NoPayload
    /\ lastCall' = NoCall
    /\ CommitProcessor(name, p)

OnUpdate ==
    \E callback \in CallbackIds :
        /\ Len(updateCallbacks) < MaxCallbacks
        /\ SubscriberStep("OnUpdate", onUpdate(Processor, callback))

OffUpdate ==
    \E callback \in CallbackIds :
        /\ IndexOf(updateCallbacks, callback) > 0
        /\ SubscriberStep("OffUpdate", offUpdate(Processor, callback))

\* The processor with subscribers, under messages that fail and resets.
SubscriberNext == ProcessFaulty \/ Reset \/ OnUpdate \/ OffUpdate

SpecSubscribers == DefaultInit /\ [][SubscriberNext]_vars

\* The snapshot under partial updates and resets.
TelemetryNext == ProcessTelemetry \/ Reset

SpecTelemetry == DefaultInit /\ [][TelemetryNext]_vars

\* The History Rings under updates and resets.
HistoryNext == RecordTelemetry \/ Reset

SpecHistory == DefaultInit /\ [][HistoryNext]_vars

\* Updates, resets and callers that write into what the accessors returned.
AccessorNext == RecordTelemetry \/ Reset \/ CallerWrite

SpecAccessors == DefaultInit /\ [][AccessorNext]_vars

\* ---------------------------------------------------------------- claims

AppOps == {"Connect", "Disconnect", "On", "Off"}
TimerConnectOps == {"ReconnectTimerFire", "OrphanTimerFire"}
ReconnectPending == reconnectTimer = "pending" \/ orphanTimers > 0

\* C1: once disconnect() was the application's last call, no timer or transport
\* event delivers a status, sends a frame or calls connect(), and disconnect()
\* itself leaves no reconnect scheduled in this.reconnectTimer.
C1_QuietAfterDisconnect ==
    /\ (disconnected /\ lastOp \notin AppOps /\ lastOp # "init")
         => (delivered = <<>> /\ sent = <<>> /\ lastOp \notin TimerConnectOps)
    /\ lastOp = "Disconnect" => reconnectTimer = "null"

\* C2: after the reconnect budget is exhausted (scheduleReconnect gave up) no
\* reconnect timer is pending, so nothing calls connect() until the application does.
C2_FailedIsTerminal ==
    gaveUp => (reconnectAttempts >= MaxReconnectAttempts /\ ~ReconnectPending)

\* C3: while the client has given up, 'failed' is the most recent status the
\* connection callbacks received.
C3_FailedIsLastStatus == gaveUp => lastStatus = "failed"

\* C4: every scheduled reconnect raises the attempt count by exactly one and waits
\* min(reconnectInterval * attemptCount, 30000): never less than the previous
\* delay of the same outage and never more than the cap.
C4_BackoffMonotoneCapped ==
    [][reconnectAttempts' # reconnectAttempts =>
          \/ reconnectAttempts' = 0 /\ lastDelay' = 0
          \/ /\ reconnectAttempts' = reconnectAttempts + 1
             /\ lastDelay' = (IF reconnectInterval * reconnectAttempts' <= 30000
                              THEN reconnectInterval * reconnectAttempts' ELSE 30000)
             /\ lastDelay' >= lastDelay
             /\ lastDelay' <= 30000]_vars

C4_Witness ==
    /\ reconnectAttempts = MaxReconnectAttempts
    /\ lastDelay = 30000
    /\ reconnectInterval * reconnectAttempts > 30000
    /\ lastOp = "TransportClose"

\* What a close event of an open transport schedules: one reconnect timer when
\* the code is not 1000 and the budget is left, nothing otherwise.
C5_CloseSchedules ==
    [][(lastOp' = "TransportClose" /\ lastClose'.from = "OPEN")
          => IF lastClose'.code # 1000 /\ reconnectAttempts < MaxReconnectAttempts
             THEN /\ reconnectTimer' = "pending"
                  /\ orphanTimers' = orphanTimers
                  /\ reconnectAttempts' = reconnectAttempts + 1
             ELSE /\ reconnectTimer' = "null"
                  /\ orphanTimers' = orphanTimers
                  /\ reconnectAttempts' = reconnectAttempts]_vars

\* The reconnect timer of attempt n, scheduled by the close event of an open transport.
C5_Scheduled(n) ==
    /\ lastOp = "TransportClose"
    /\ lastClose.from = "OPEN"
    /\ reconnectTimer = "pending"
    /\ reconnectAttempts = n

C5_ScheduledAny == \E n \in 1..MaxReconnectAttempts : C5_Scheduled(n)

\* C5 as stated: a close of an open transport with a code other than 1000
\* schedules exactly one reconnect timer (1000 schedules none), and that timer
\* calls connect() unless disconnect() intervenes.
C5_ReconnectUnlessDisconnect ==
    /\ C5_CloseSchedules
    /\ C5_ScheduledAny ~> (lastOp \in TimerConnectOps \/ disconnected)

\* C5 as amended: the timer calls connect() unless it is cancelled first, by
\* disconnect() or a successful open (this.reconnectTimer is null) or by a
\* further close event (which schedules the next attempt or gives up).
C5_ReconnectUnlessCancelled ==
    /\ C5_CloseSchedules
    /\ C5_ScheduledAny ~> \/ lastOp \in TimerConnectOps
                          \/ reconnectTimer = "null"
                          \/ lastOp = "StaleClose"
                          \/ (lastOp = "TransportClose" /\ lastClose.from # "OPEN")

C5_Witness ==
    /\ C5_Scheduled(1)
    /\ lastClose.code = 1001
    /\ orphanTimers = 0
    /\ delivered = <<"reconnecting", "disconnected">>

\* C6: the connection never stays open once a heartbeat ping was still
\* unacknowledged when the next heartbeat came due.
C6_MissedHeartbeatReconnects ==
    ~(ws = "OPEN" /\ isConnected /\ unackedPings >= 2)

\* C7: every received ping is answered by exactly one pong carrying the ping's
\* timestamp, and by nothing else.
C7_PingAnsweredByOnePong ==
    (lastOp = "TransportMessage" /\ lastFrame.type = "ping")
        => sent = <<[type |-> "pong", timestamp |-> "now", data |-> lastFrame.timestamp]>>

\* C8: no handler is called for a received ping or pong, whatever is registered.
C8_SystemTypesIntercepted ==
    (lastOp = "TransportMessage" /\ lastFrame.type \in {"ping", "pong"})
        => invoked = <<>>

C8_Witness ==
    /\ lastOp = "TransportMessage"
    /\ lastFrame.type = "ping"
    /\ messageHandlers["ping"] # <<>>
    /\ messageHandlers["pong"] # <<>>

\* Handlers that leave the registry alone: they return or throw.
Passive(list) == \A i \in 1..Len(list) : list[i] \in {"plain", "thrower"}

\* C9: when handlers throw during a dispatch (and none changes the registry),
\* every handler registered for the type is still called, in order, and the
\* dispatch changes neither the registry nor the connection state.
C9_ThrowDoesNotStopDispatch ==
    [][(lastOp' = "TransportMessage" /\ lastFrame'.type \in DomainTypes
            /\ Passive(messageHandlers[lastFrame'.type]))
          => /\ invoked' = messageHandlers[lastFrame'.type]
             /\ UNCHANGED <<messageHandlers, ws, isConnected, reconnectAttempts,
                            reconnectTimer, heartbeatTimer>>
             /\ delivered' = <<>>]_vars

C9_Witness ==
    /\ lastOp = "TransportMessage"
    /\ invoked = <<"thrower", "plain">>
    /\ ws = "OPEN"

\* C10: a dispatch calls every handler that was registered for the type when it
\* began, once each and in registration order, also when handlers call on()/off().
C10_AllRegisteredInvoked ==
    (lastOp = "TransportMessage" /\ lastFrame.type \in DomainTypes)
        => invoked = atStart

Others(list, h) == SelectSeq(list, LAMBDA x : x # h)
Occurrences(list, h) == Cardinality({i \in 1..Len(list) : list[i] = h})

\* C11: on(type, h) appends h to the list of that type and changes no other list;
\* off(type, h) removes the earliest registration of h from that type's list,
\* keeps the order of all remaining registrations and changes no other list;
\* off for a handler that is not in the list (or a type without handlers) changes
\* nothing.
C11_OnOffFrame ==
    [][/\ lastOp' = "On" =>
            /\ messageHandlers'[lastArg'.type]
                   = messageHandlers[lastArg'.type] \o <<lastArg'.handler>>
            /\ \A t \in HandlerTypes \ {lastArg'.type} :
                   messageHandlers'[t] = messageHandlers[t]
       /\ lastOp' = "Off" =>
            LET old == messageHandlers[lastArg'.type]
                new == messageHandlers'[lastArg'.type]
                h == lastArg'.handler
            IN /\ \A t \in HandlerTypes \ {lastArg'.type} :
                      messageHandlers'[t] = messageHandlers[t]
               /\ IF Occurrences(old, h) = 0
                  THEN new = old
                  ELSE /\ Len(new) = Len(old) - 1
                       /\ Occurrences(new, h) = Occurrences(old, h) - 1
                       /\ Others(new, h) = Others(old, h)
                       /\ \E i \in 1..Len(old) :
                              /\ old[i] = h
                              /\ \A j \in 1..(i - 1) : old[j] # h /\ new[j] = old[j]
                              /\ \A j \in i..Len(new) : new[j] = old[j + 1]
       /\ lastOp' \in {"On", "Off"} =>
            UNCHANGED <<ws, isConnected, reconnectAttempts, reconnectTimer,
                        heartbeatTimer>>]_vars

\* off() took one of two registrations of the same handler out of a list that
\* holds another handler as well.
C11_Witness ==
    /\ lastOp = "Off"
    /\ lastArg = [type |-> "telemetry", handler |-> "plain"]
    /\ messageHandlers["telemetry"] = <<"thrower", "plain">>

Malformed(frame) == frame.text \in {"notJSON", "null", "noType"}

\* C12: a received frame that is no JSON, or that has no type, calls no handler,
\* sends nothing, delivers no status and leaves the connection state, the
\* reconnect counter, the timers and the registry as they were; the frame
\* received after it is dispatched to every handler of its type.
C12_MalformedDropped ==
    [][/\ (lastOp' = "TransportMessage" /\ Malformed(lastFrame')) =>
            /\ invoked' = <<>>
            /\ sent' = <<>>
            /\ delivered' = <<>>
            /\ UNCHANGED <<messageHandlers, ws, isConnected, reconnectAttempts,
                           reconnectTimer, heartbeatTimer, orphanTimers,
                           connTimeouts, stale, unackedPings, gaveUp>>
       /\ (lastOp = "TransportMessage" /\ Malformed(lastFrame)
              /\ lastOp' = "TransportMessage" /\ lastFrame'.type \in DomainTypes
              /\ Passive(messageHandlers[lastFrame'.type]))
            => invoked' = messageHandlers[lastFrame'.type]]_vars

C12_Witness ==
    /\ lastOp = "TransportMessage"
    /\ lastFrame.text = "noType"
    /\ ws = "OPEN"
    /\ heartbeatTimer = "active"
    /\ \A t \in DomainTypes : messageHandlers[t] # <<>>

\* The fields calculateDerivedValues assigns.
DerivedKeys == {"maxSpeed", "fuelPercentage", "estimatedLapsRemaining", "avgTireTemp",
                "pitWindowOpen"}

Kept(keys) == \A k \in keys : k \in DOMAIN currentData' /\ currentData'[k] = currentData[k]

\* C13 as stated: a merge leaves every snapshot field that the payload does not
\* name with the value it had before the merge.
C13_UnnamedFieldsKept ==
    [][lastOp' = "ProcessTelemetry"
          => Kept(DOMAIN currentData \ DOMAIN lastPayload')]_vars

\* C13 as amended: a merge leaves every snapshot field that the payload does not
\* name, other than the derived ones (maxSpeed, fuelPercentage,
\* estimatedLapsRemaining, avgTireTemp, pitWindowOpen), with the value it had.
C13_UnnamedInputFieldsKept ==
    [][lastOp' = "ProcessTelemetry"
          => Kept((DOMAIN currentData \ DOMAIN lastPayload') \ DerivedKeys)]_vars

\* A merge of fuelLevel alone, after earlier merges wrote speed, tireTemps and
\* fuelCapacity.
C13_Witness ==
    /\ lastOp = "ProcessTelemetry"
    /\ lastPayload = [fuelLevel |-> 400]
    /\ currentData.fuelLevel = 400
    /\ currentData.fuelCapacity = 500
    /\ currentData.speed = 330
    /\ currentData.tireTemps = HotCorners

\* C14: the snapshot never holds a key that only a payload brought: its keys are
\* the fields the constructor defines and the derived fields.
C14_UnknownKeysIgnored ==
    DOMAIN currentData \subseteq DOMAIN SchemaData \cup DerivedKeys

\* The nine History Rings.
Rings(h) ==
    <<h.timestamps, h.speed, h.rpm, h.fuelLevel, h.engineTemp,
      h.tireTemps["fl"], h.tireTemps["fr"], h.tireTemps["rl"], h.tireTemps["rr"]>>

RingsBounded(h) == \A i \in 1..9 : Len(Rings(h)[i]) <= MaxHistoryLength

\* An append to a full ring drops the oldest element and keeps the others in order.
RingsFifo(old, new) ==
    \A i \in 1..9 :
        LET a == Rings(old)[i]
            b == Rings(new)[i]
        IN (Len(a) = MaxHistoryLength /\ b # a) => b = Tail(a) \o <<b[Len(b)]>>

\* C15: after every processed telemetry message each History Ring holds at most
\* maxHistoryLength elements, and an append to a full ring removes exactly the
\* oldest element, keeping the others in order before the new one.
C15_RingsBoundedFifo ==
    [][lastOp' = "ProcessTelemetry"
          => RingsBounded(dataHistory') /\ RingsFifo(dataHistory, dataHistory')]_vars

\* The equations between the derived fields and the fields they are computed from.
DerivedConsistent(d) ==
    /\ "fuelPercentage" \in DOMAIN d
    /\ d.fuelPercentage = Div(d.fuelLevel * 100, d.fuelCapacity)
    /\ d.fuelUsagePerLap > 0 => d.estimatedLapsRemaining = Div(d.fuelLevel, d.fuelUsagePerLap)
    /\ d.pitWindowOpen <=> (Less(d.fuelPercentage, 30) \/ Less(d.estimatedLapsRemaining, 3))

\* C16: after every merge fuelPercentage = fuelLevel / fuelCapacity * 100,
\* estimatedLapsRemaining = fuelLevel / fuelUsagePerLap when fuelUsagePerLap > 0,
\* and pitWindowOpen is true exactly when fuelPercentage < 30 or
\* estimatedLapsRemaining < 3.
C16_DerivedFormulas ==
    lastOp = "ProcessTelemetry" => DerivedConsistent(currentData)

InputKeys == {"fuelLevel", "fuelCapacity", "fuelUsagePerLap", "speed", "tireTemps"}
OutputKeys == {"fuelPercentage", "estimatedLapsRemaining", "avgTireTemp", "pitWindowOpen"}

SameOn(keys, a, b) ==
    \A k \in keys : /\ k \in DOMAIN a <=> k \in DOMAIN b
                     /\ k \in DOMAIN a => a[k] = b[k]

\* The snapshots of a second processor after one or two merges.
OtherProcessorData ==
    {updateCurrentData(Constructed, p1).currentData : p1 \in Payloads}
    \cup {updateCurrentData(updateCurrentData(Constructed, p1), p2).currentData :
             p1 \in Payloads, p2 \in Payloads}

\* C17: after a merge, a processor whose fuelLevel, fuelCapacity, fuelUsagePerLap,
\* speed and tireTemps equal those of another processor (which came to them by
\* other merges) has the same fuelPercentage, estimatedLapsRemaining, avgTireTemp
\* and pitWindowOpen.
C17_DerivedDependOnFieldsOnly ==
    lastOp = "ProcessTelemetry" =>
        \A other \in OtherProcessorData :
            SameOn(InputKeys, currentData, other) => SameOn(OutputKeys, currentData, other)

\* C18: after a merge with fuelUsagePerLap zero (and tireTemps an object) the
\* processing has not thrown and estimatedLapsRemaining is no finite number of
\* laps.
C18_ZeroUsageNotFinite ==
    (lastOp = "ProcessTelemetry" /\ currentData.fuelUsagePerLap = 0
        /\ ~currentData.tireTemps.null)
        => (~threw /\ ~Finite(currentData.estimatedLapsRemaining))

\* C19: after reset() the snapshot is the one a new processor has (every field
\* at its initial value, no other key) and every History Ring is empty.
C19_ResetRestoresInitial ==
    lastOp = "Reset" =>
        /\ DOMAIN currentData = DOMAIN Constructed.currentData
        /\ \A k \in DOMAIN Constructed.currentData : currentData[k] = Constructed.currentData[k]
        /\ dataHistory = EmptyHistory

\* C20: from every reachable state, reset() called twice in a row leaves the
\* snapshot, the History Rings and the suggestion list as one reset() leaves them.
C20_ResetIdempotent ==
    LET once == reset(Processor)
        twice == reset([once EXCEPT !.threw = FALSE, !.notified = FALSE])
    IN /\ twice.currentData = once.currentData
       /\ twice.dataHistory = once.dataHistory
       /\ twice.aiSuggestions = once.aiSuggestions
       /\ ~once.threw /\ ~twice.threw

\* reset() after merges that left a low fuelPercentage and a payload key behind.
C20_Witness ==
    /\ lastOp = "Reset"
    /\ "fuelPercentage" \in DOMAIN currentData
    /\ Less(currentData.fuelPercentage, 25)
    /\ "toString" \in DOMAIN currentData
    /\ aiSuggestions = <<"strategy", "defense">>
    /\ dataHistory = EmptyHistory

\* C21: no write a caller makes on a value returned by getCurrentData(),
\* getDataHistory() or getAISuggestions() changes the snapshot, the History Rings
\* or the suggestions of the processor.
C21_AccessorsReturnCopies ==
    [][lastOp' = "CallerWrite"
          => UNCHANGED <<currentData, dataHistory, aiSuggestions>>]_vars

Has(list, type) == \E i \in 1..Len(list) : list[i] = type

\* No tire temperature above 100 and more fuel than 30% of the capacity.
CoolAndFuelled(d) ==
    /\ ~d.tireTemps.null
    /\ \A c \in DOMAIN d.tireTemps.temps : d.tireTemps.temps[c] <= 100
    /\ d.fuelLevel * 100 > 30 * d.fuelCapacity

\* C22: on every snapshot in which no tire temperature exceeds 100 and the fuel
\* is above 30% of the capacity, generateAISuggestions produces no suggestion of
\* type 'strategy', 'fuel' or 'tires'.
C22_NoFuelOrTireSuggestion ==
    CoolAndFuelled(currentData) =>
        LET list == generateAISuggestions(Processor).aiSuggestions IN
        ~Has(list, "strategy") /\ ~Has(list, "fuel") /\ ~Has(list, "tires")

\* The rules in the order generateAISuggestions evaluates them.
RuleOrder == <<"strategy", "fuel", "tires", "overtake", "defense", "engine">>

Position(type) == CHOOSE i \in 1..Len(RuleOrder) : RuleOrder[i] = type

InRuleOrder(list) ==
    /\ \A i \in 1..Len(list) : Has(RuleOrder, list[i])
    /\ \A i, j \in 1..Len(list) : i < j => Position(list[i]) < Position(list[j])

PreviousLists == {<<>>, <<"engine", "strategy">>, RuleOrder}

\* C23: a recompute of the suggestions yields a list with at most one suggestion
\* per rule, in the rule evaluation order (so at most six), that does not depend
\* on the previous list, and it changes no snapshot field; the list reset() leaves
\* is that recomputed list.
C23_RecomputeReplacesList ==
    LET g == generateAISuggestions(Processor) IN
    /\ InRuleOrder(g.aiSuggestions)
    /\ Len(g.aiSuggestions) <= 6
    /\ \A previous \in PreviousLists :
          generateAISuggestions([Processor EXCEPT !.aiSuggestions = previous]).aiSuggestions
              = g.aiSuggestions
    /\ g.currentData = currentData
    /\ lastOp = "Reset" => aiSuggestions = g.aiSuggestions

\* A merge has recomputed the list and all six rules have fired.
C23_Witness ==
    /\ lastOp = "ProcessTelemetry"
    /\ ~threw
    /\ aiSuggestions = RuleOrder

\* C24: when the update subscribers are notified after a processed telemetry
\* message, the suggestion list is the result of the rules on the current snapshot.
C24_SuggestionsCurrentWhenNotified ==
    (lastOp = "ProcessTelemetry" /\ notified) =>
        aiSuggestions = generateAISuggestions(Processor).aiSuggestions

OpenEffects ==
    <<[kind |-> "setInterval", what |-> "heartbeat"]>>
    \o (IF apiKey THEN <<[kind |-> "send", what |-> "auth"]>> ELSE <<>>)
    \o <<[kind |-> "send", what |-> "subscribe"],
         [kind |-> "status", what |-> "connected"]>>

\* C25: at every open the transport reports, the client starts the heartbeat
\* timer, sends one 'auth' message exactly when an apiKey is configured, then one
\* 'subscribe' message, then delivers the 'connected' status, in that order.
C25_OpenSequence ==
    lastOp = "TransportOpen" =>
        /\ heartbeatTimer = "active"
        /\ effects = OpenEffects
        /\ Len(sent) = (IF apiKey THEN 2 ELSE 1)
        /\ delivered = <<"connected">>

\* An open with an apiKey configured, after an earlier connection attempt.
C25_Witness ==
    /\ lastOp = "TransportOpen"
    /\ apiKey
    /\ connTimeouts = MaxConnTimeouts
    /\ Len(sent) = 2

\* C26: the 'subscribe' message sent at an open carries the channels of the most
\* recent subscription the application has sent (the default set if none).
C26_ResubscribesCurrentSet ==
    lastOp = "TransportOpen" =>
        \E i \in 1..Len(sent) : sent[i].type = "subscribe" /\ sent[i].data = requested

\* The close handler has left the client Reconnecting or Failed, or the
\* application has disconnected.
AttemptEnded ==
    \/ /\ lastOp \in {"TransportClose", "StaleClose"}
       /\ reconnectTimer = "pending" \/ gaveUp
    \/ ws = "null"

\* C27: when the transport reports neither success nor failure, a client that is
\* Connecting does not stay so: the connection timeout closes the attempt and the
\* close handler moves the client to Reconnecting, or to Failed when the budget is
\* exhausted (unless the application disconnects first); while the client is
\* Connecting a connection timeout is pending.
C27_ConnectingEnds ==
    /\ [](ws = "CONNECTING" => connTimeouts > 0)
    /\ (ws = "CONNECTING") ~> AttemptEnded

\* The timeout has closed an attempt and its close event scheduled a reconnect.
C27_Witness ==
    /\ lastOp = "TransportClose"
    /\ lastClose.from = "CLOSING"
    /\ reconnectTimer = "pending"
    /\ ~disconnected

ConnectOps == {"Connect", "ReconnectTimerFire", "OrphanTimerFire"}

\* C28: a connect() in which the construction of the transport throws returns
\* normally with a reconnect scheduled and counted ('reconnecting'), or with
\* 'failed' reported when the attempt budget is exhausted; it creates no transport.
C28_ConstructionFailureReconnects ==
    [][(lastOp' \in ConnectOps /\ ws \notin {"CONNECTING", "OPEN"} /\ ~serverUrlValid')
         => /\ ws' = ws
            /\ connTimeouts' = connTimeouts
            /\ IF reconnectAttempts >= MaxReconnectAttempts
               THEN /\ delivered' = <<"failed">>
                    /\ gaveUp'
                    /\ reconnectAttempts' = reconnectAttempts
               ELSE /\ delivered' = <<"reconnecting">>
                    /\ reconnectAttempts' = reconnectAttempts + 1
                    /\ reconnectTimer' = "pending"
                    /\ lastDelay' = ReconnectDelay(reconnectInterval, reconnectAttempts')]_vars

\* A connect() from the reconnect timer failed with the budget exhausted.
C28_Witness ==
    /\ lastOp = "ReconnectTimerFire"
    /\ ~serverUrlValid
    /\ gaveUp
    /\ delivered = <<"failed">>

\* C29: every transition of the connection state machine is reported to the
\* status callback with the new state; in particular a step that takes the client
\* to Connecting (connect() from Idle, or the backoff timer firing) delivers the
\* Connecting status and leaves it as the last status delivered.
C29_ConnectingReported ==
    [][(ws' = "CONNECTING" /\ ws # "CONNECTING")
         => (delivered' # <<>> /\ lastStatus' = "connecting")]_vars

\* Transports the client created that are connecting or open.
LiveTransports ==
    (IF ws \in {"CONNECTING", "OPEN"} THEN 1 ELSE 0)
    + stale["detConnecting"] + stale["detOpen"]

\* C30: in every reachable state at most one transport created by the client is
\* connecting or open.
C30_OneLiveTransport == LiveTransports <= 1

\* C31: a processed telemetry message leaves either the complete merge with the
\* derived values recomputed from it, or, when its processing fails part-way,
\* no merged field next to stale derived values; the update subscribers are
\* called with a complete snapshot only.
C31_NoPartialSnapshot ==
    [][lastOp' = "ProcessTelemetry"
         => /\ notified' => DerivedConsistent(currentData')
            /\ threw' => (currentData' = currentData \/ DerivedConsistent(currentData'))]_vars

\* C32: an exception raised while a telemetry message is merged, derived or
\* recorded, or inside an update subscriber, ends in the catch of
\* processTelemetryData or notifyUpdateCallbacks: when the subscribers are
\* notified every registered subscriber is called, throwing ones included, and a
\* message that follows a failed one and carries well-formed data is processed to
\* the end.
C32_FailuresStayLocal ==
    [][/\ (lastOp' \in {"ProcessTelemetry", "Reset"} /\ notified')
            => calledBack' = updateCallbacks
       /\ (lastOp' = "ProcessTelemetry" /\ lastOp = "ProcessTelemetry" /\ threw
              /\ lastPayload' \in WellFormedPayloads)
            => (notified' /\ ~threw')]_vars

\* Reconnect timeouts that were set and have neither fired nor been cleared.
PendingReconnectTimers ==
    (IF reconnectTimer = "pending" THEN 1 ELSE 0) + orphanTimers

\* C33: at most one reconnect timer is pending in every reachable state, and
\* after disconnect() none is.
C33_OneReconnectTimer ==
    /\ PendingReconnectTimers <= 1
    /\ lastOp = "Disconnect" => PendingReconnectTimers = 0

\* C34: the connection timeout that closes a connecting transport is the one
\* started by the connect() call that created it. The timeouts all run for the
\* same duration, so they fire in the order they were started and the one of the
\* current transport is the last of those pending.
C34_TimeoutClosesOwnTransport ==
    [][(lastOp' = "ConnTimeoutFire" /\ ws = "CONNECTING" /\ ws' = "CLOSING")
         => connTimeouts = 1]_vars

\* C35: an explicit connect() of a client that is Failed starts with a fresh
\* reconnect budget: it does not report Failed again, and the attempt counter is
\* 0 when the transport was created, or 1 with the retry scheduled at the base
\* interval when its construction failed.
C35_ConnectAfterFailedIsFresh ==
    [][(lastOp' = "Connect" /\ gaveUp /\ ws \notin {"CONNECTING", "OPEN"})
         => /\ ~gaveUp'
            /\ IF ws' = "CONNECTING"
               THEN reconnectAttempts' = 0
               ELSE reconnectAttempts' = 1 /\ lastDelay' = reconnectInterval]_vars

\* C36: reconnectAttempts stays within 0..maxReconnectAttempts; every open sets
\* it back to 0, and the reconnect scheduled last has the delay of the current
\* count, so the first one after an open has count 1 and the base interval.
C36_AttemptsBoundedAndReset ==
    /\ reconnectAttempts \in 0..MaxReconnectAttempts
    /\ lastOp = "TransportOpen" => reconnectAttempts = 0
    /\ reconnectAttempts > 0
         => lastDelay = ReconnectDelay(reconnectInterval, reconnectAttempts)

\* An open after two reconnects had been scheduled.
C36_Witness ==
    /\ lastOp = "TransportOpen"
    /\ orphanTimers > 0
    /\ reconnectAttempts = 0

\* C37: send() transmits only when the client is connected and the current
\* transport is open, and then returns true with one frame {type, timestamp,
\* data}; otherwise it returns false, transmits nothing and changes no state of
\* the client.
C37_SendOnlyWhenOpen ==
    [][lastOp' = "Send"
         => /\ returned' \in {"true", "false"}
            /\ returned' = "true"
                 => /\ isConnected /\ ws = "OPEN"
                    /\ sent' = <<[type |-> lastArg'.type, timestamp |-> "now",
                                  data |-> "none"]>>
            /\ returned' = "false" => sent' = <<>>
            /\ ~(isConnected /\ ws = "OPEN") => returned' = "false"
            /\ delivered' = <<>>
            /\ UNCHANGED <<ws, isConnected, reconnectAttempts, reconnectTimer,
                           heartbeatTimer, orphanTimers, connTimeouts, stale,
                           lastStatus, messageHandlers, gaveUp>>]_vars

\* A request after the client has given up reconnecting.
C37_Witness ==
    /\ lastOp = "Send"
    /\ returned = "false"
    /\ gaveUp
    /\ lastArg.handler = "json"

HeartbeatStart == [kind |-> "setInterval", what |-> "heartbeat"]

\* C38: a heartbeat interval is active only while the client is connected on an
\* open transport; it is started only when none is active, so at most one is;
\* every close event and every disconnect() leaves none; a ping goes out only on
\* an open transport.
C38_HeartbeatOnlyWhileOpen ==
    /\ [](/\ heartbeatTimer = "active" => (ws = "OPEN" /\ isConnected)
          /\ lastOp \in {"TransportClose", "StaleClose", "Disconnect"}
               => heartbeatTimer = "null"
          /\ (lastOp = "HeartbeatFire" /\ sent # <<>>) => ws = "OPEN")
    /\ [][Has(effects', HeartbeatStart) => heartbeatTimer = "null"]_vars

\* The heartbeat of a connection that was open has been stopped by its close
\* event.
C38_Witness ==
    /\ lastOp = "TransportClose"
    /\ lastClose.from = "OPEN"
    /\ heartbeatTimer = "null"
    /\ reconnectTimer = "pending"

\* C39: after every processed message and after reset() the timestamps ring, the
\* four scalar rings and the four tire-temperature rings have the same length.
C39_RingsAligned ==
    lastOp \in {"ProcessTelemetry", "Reset"} =>
        \A i \in 1..9 : Len(Rings(dataHistory)[i]) = Len(dataHistory.timestamps)

\* C40: directly after construction and directly after reset() the derived
\* fields satisfy their equations on the snapshot, and the suggestion list is
\* the rule evaluation of that snapshot: with the fuel below 25% of the
\* capacity it holds the fuel-critical suggestion.
C40_ConsistentAfterInitAndReset ==
    lastOp \in {"init", "Reset"} =>
        /\ DerivedConsistent(currentData)
        /\ aiSuggestions = generateAISuggestions(Processor).aiSuggestions
        /\ currentData.fuelLevel * 100 < 25 * currentData.fuelCapacity
             => Has(aiSuggestions, "strategy")

TypeOK ==
    /\ ws \in {"null", "CONNECTING", "OPEN", "CLOSING", "CLOSED"}
    /\ reconnectAttempts \in 0..MaxReconnectAttempts
    /\ orphanTimers \in 0..(MaxOrphanTimers + 1)
====
